---- MODULE Spec2Model ----
(***************************************************************************)
(* Supervisor loop (multi-agent-supervisor.ts) and researcher loop         *)
(* (research-agent.ts) of deep-research-ts as one state machine.           *)
(*                                                                         *)
(* A string is modelled as a sequence of tokens, so that concatenation,    *)
(* join("\n") and the empty string ("" is <<>>) are computed, not assumed. *)
(* The language model and the search service are the environment: every   *)
(* turn they can return, and every failure, is a nondeterministic choice. *)
(***************************************************************************)
EXTENDS Integers, Sequences, FiniteSets, TLC

\* ----- bounds on the environment -----
\* invocations in one supervisor model turn
MaxSupBatch == 3
\* invocations over all supervisor model turns of one phase
MaxSupCalls == 3
\* ConductResearch invocations over all supervisor model turns of one phase
MaxDelegates == 2
\* invocations in one model turn of a researcher run on its own
MaxAgentBatch == 3
\* invocations over all recorded model turns of a researcher run on its own
MaxAgentCalls == 3
\* invocations over all recorded model turns of a researcher the supervisor
\* spawned
MaxSubCalls == 1
\* invocations in one supervisor model turn of a whole session
MaxSessionBatch == 2
\* invocations over all supervisor model turns of a whole session
MaxSessionCalls == 2
\* ConductResearch invocations over all supervisor model turns of a whole
\* session
MaxSessionDelegates == 1
\* queries of one tavilySearchMultiple call
MaxQueries == 2
\* results the search service returns for one query
MaxResults == 2

\* ----- program constants -----
\* multi-agent-supervisor.ts:86  researchIterations >= 6
MaxResearcherIterations == 6
\* the number of concurrent research units named in the prompt
MaxConcurrentResearchUnits == 3
\* values of the configured maximum of supervisor iterations
ConfiguredMaxima == {2, MaxResearcherIterations}
\* delegations in one turn under WideBrief
MaxWideBatch == 4

\* utils.ts:84  webpageContent.length > 1000, substring(0, 1000)
SummaryFallbackChars == 1000
\* utils.ts:162  "-".repeat(80)
RuleWidth == 80

\* the topic the model delegates with the i-th invocation of a turn
Topics == <<"solar", "wind", "hydro", "tidal", "nuclear">>
Brief == <<"brief">>
\* a brief the model answers with delegations only, as many in one turn as
\* MaxWideBatch
WideBrief == <<"wide brief">>

SupToolNames == {"think_tool", "ConductResearch", "ResearchComplete", "unknown_tool"}
WorkerToolNames == {"tavily_search", "think_tool", "unknown_tool"}
\* the tools the model names in a researcher the supervisor spawned
SubToolNames == {"tavily_search", "unknown_tool"}

VARIABLES
    supPc,                \* node of the supervisor graph that runs next
    supervisor_messages,  \* SupervisorState.supervisor_messages
    research_brief,       \* SupervisorState.research_brief
    notes,                \* SupervisorState.notes
    research_iterations,  \* SupervisorState.research_iterations
    raw_notes,            \* SupervisorState.raw_notes
    toolMessages,         \* local of supervisorTools, live across the await
    workers,              \* researcherAgent.invoke calls of the current batch
    settled,              \* researchPromises in the order in which they settled
    stage,                \* node of the deepResearch graph that runs next
    messages,             \* AgentState.messages
    final_report,         \* AgentState.final_report
    searchPc,             \* position inside one tavilySearch call
    searchDocs,           \* tavilySearch: searchResults, one response per query
    uniqueResults,        \* tavilySearch: uniqueResults, in insertion order
    summarizedResults,    \* tavilySearch: summarizedResults, in insertion order
    formattedOutput,      \* the string the latest formatSearchOutput returned
    observation,          \* toolNode: observation of the tavily_search call
    maxResearcherIterations  \* configuration: maximum of supervisor iterations

\* the state of the deepResearch graph outside the supervisor subgraph
sessionVars == <<stage, messages, final_report>>

\* the state of one tavily_search tool call
searchVars == <<searchPc, searchDocs, uniqueResults, summarizedResults,
                formattedOutput, observation>>

\* the configuration the graphs are started under
configVars == <<maxResearcherIterations>>

vars == <<supPc, supervisor_messages, research_brief, notes,
          research_iterations, raw_notes, toolMessages, workers, settled,
          sessionVars, searchVars, configVars>>

\* ----- sequences and strings -----
Last(s) == s[Len(s)]

RECURSIVE Flatten(_)
Flatten(ss) == IF ss = <<>> THEN <<>> ELSE Head(ss) \o Flatten(Tail(ss))

\* Array.prototype.join(sep) over strings
RECURSIVE Join(_, _)
Join(ss, sep) ==
    IF ss = <<>> THEN <<>>
    ELSE IF Len(ss) = 1 THEN Head(ss)
    ELSE Head(ss) \o <<sep>> \o Join(Tail(ss), sep)

\* JavaScript truthiness of a string
Truthy(str) == str # <<>>

\* ----- messages -----
NoId == <<>>

HumanMessage(c) ==
    [type |-> "human", content |-> c, has_tool_calls |-> FALSE,
     tool_calls |-> <<>>, tool_call_id |-> NoId, name |-> ""]

\* has = FALSE: the turn carries no tool_calls property at all; has = TRUE
\* with calls = <<>>: it carries an empty list
AIMessage(c, has, calls) ==
    [type |-> "ai", content |-> c, has_tool_calls |-> has,
     tool_calls |-> calls, tool_call_id |-> NoId, name |-> ""]

ToolMessage(c, id, nm) ==
    [type |-> "tool", content |-> c, has_tool_calls |-> FALSE,
     tool_calls |-> <<>>, tool_call_id |-> id, name |-> nm]

\* the id the service gives the i-th invocation of the turn stored at
\* position p of a history: unique within that history
CallId(p, i) == <<p, i>>

Batches(names, n) == UNION {[1..k -> names] : k \in 0..n}

CountName(nms, nm) == Cardinality({i \in DOMAIN nms : nms[i] = nm})

AllCalls(msgs) == Flatten([i \in DOMAIN msgs |-> msgs[i].tool_calls])

CallsIn(msgs) == Len(AllCalls(msgs))

DelegatesIn(msgs) ==
    Len(SelectSeq(AllCalls(msgs), LAMBDA c : c.name = "ConductResearch"))

\* ----- tools -----
\* thinkTool: `Reflection recorded: ${reflection}`
thinkTool(reflection) == <<"Reflection recorded: ">> \o reflection

\* tavilySearch: the formatted output of a search that did not raise
tavilySearch(query) == <<"Search Results:">> \o query

\* getNotesFromToolCalls: payloads of the tool-result messages, in order
getNotesFromToolCalls(msgs) ==
    LET tools == SelectSeq(msgs, LAMBDA m : m.type = "tool")
    IN  [i \in DOMAIN tools |-> tools[i].content]

\* ----- researcher graph (research-agent.ts) -----
\* a researcher seeded with the history of the supervisor before the topic
NewWorkerSharedHistory(toolCall) ==
    [pc |-> "llm_call",
     researcher_messages |-> supervisor_messages \o <<HumanMessage(toolCall.args)>>,
     research_topic |-> toolCall.args,
     compressed_research |-> <<>>,
     raw_notes |-> <<>>,
     toolCall |-> toolCall]

\* researcherAgent.invoke({researcher_messages: [HumanMessage(topic)],
\*                         research_topic: topic}) for one ConductResearch call
NewWorker(toolCall) ==
    [pc |-> "llm_call",
     researcher_messages |-> <<HumanMessage(toolCall.args)>>,
     research_topic |-> toolCall.args,
     compressed_research |-> <<>>,
     raw_notes |-> <<>>,
     toolCall |-> toolCall]

\* shouldContinue with the test !tool_calls of supervisorTools: an empty list
\* counts as tool calls
shouldContinueTruthy(msgs) ==
    IF Last(msgs).has_tool_calls THEN "tool_node" ELSE "compress_research"

\* shouldContinue with a cap on the length of the history
shouldContinueCapped(msgs) ==
    LET lastMessage == Last(msgs)
        hasToolCalls == lastMessage.has_tool_calls /\ Len(lastMessage.tool_calls) > 0
    IN  IF hasToolCalls /\ Len(msgs) <= 4 THEN "tool_node" ELSE "compress_research"

\* shouldContinue: the node that follows llm_call
shouldContinue(msgs) ==
    LET lastMessage == Last(msgs)
        hasToolCalls == lastMessage.has_tool_calls /\ Len(lastMessage.tool_calls) > 0
    IN  IF hasToolCalls THEN "tool_node" ELSE "compress_research"

\* the observation toolNode computes for one tool call; raises says whether
\* the bound tool throws when invoked
Observation(toolCall, raises) ==
    IF toolCall.name \notin {"tavily_search", "think_tool"}
    THEN <<"Error: tool '", toolCall.name, "' not found.">>
    ELSE IF raises
    THEN <<"Error executing tool '", toolCall.name, "': ", "error">>
    ELSE IF toolCall.name = "tavily_search" THEN tavilySearch(toolCall.args)
    ELSE thinkTool(toolCall.args)

\* toolNode without the ToolMessage of a tool that is not bound
ToolOutputsBoundOnly(toolCalls, raises) ==
    SelectSeq([i \in DOMAIN toolCalls |->
                  ToolMessage(Observation(toolCalls[i], raises[i]),
                              toolCalls[i].id, toolCalls[i].name)],
              LAMBDA m : m.name \in {"tavily_search", "think_tool"})

\* toolNode: one ToolMessage per tool call of the last message
ToolOutputs(toolCalls, raises) ==
    [i \in DOMAIN toolCalls |->
        ToolMessage(Observation(toolCalls[i], raises[i]),
                    toolCalls[i].id, toolCalls[i].name)]

\* rawNotes without the filter on the message type
RawNotesOfAll(msgs) == <<Join([i \in DOMAIN msgs |-> msgs[i].content], "\n")>>

\* compressResearch: rawNotes, the contents of the tool and ai messages
RawNotesOf(msgs) ==
    LET kept == SelectSeq(msgs, LAMBDA m : m.type \in {"tool", "ai"})
    IN  <<Join([i \in DOMAIN kept |-> kept[i].content], "\n")>>

\* texts the model can answer the compression request with
CompressedTexts(topic) == {<<>>, <<"findings on ">> \o topic}

\* a researcher whose invoke threw: its state is lost with the exception
FailedWorker(worker) ==
    [pc |-> "FAILED",
     researcher_messages |-> <<>>,
     research_topic |-> worker.research_topic,
     compressed_research |-> <<>>,
     raw_notes |-> <<>>,
     toolCall |-> worker.toolCall]

WorkerIds == DOMAIN workers

\* Promise.all notes each researcher promise as it settles, while it is awaited
Settle(w) ==
    settled' = IF supPc = "awaiting" /\ workers'[w].pc \in {"END", "FAILED"}
               THEN Append(settled, w)
               ELSE settled

\* the bounds of the model turns of a researcher: supPc = "none" is the
\* researcher graph run on its own
WorkerBatchBound == IF supPc = "none" THEN MaxAgentBatch ELSE MaxSubCalls
\* under WideBrief only the researcher of the first topic has tool calls
\* recorded
WorkerCallsBound(w) ==
    IF supPc = "none" THEN MaxAgentCalls
    ELSE IF research_brief = WideBrief /\ workers[w].research_topic # <<Topics[1]>> THEN 0
    ELSE MaxSubCalls
WorkerNameChoices == IF supPc = "none" THEN WorkerToolNames ELSE SubToolNames
\* whether a model turn carries a tool_calls list: in a researcher the
\* supervisor spawned it always does
WorkerListChoices == IF supPc = "none" THEN BOOLEAN ELSE {TRUE}

\* llm_call: the model answers with a turn, or the call throws
LlmCall(w) ==
    /\ workers[w].pc = "llm_call"
    /\ LET msgs == workers[w].researcher_messages
           p == Len(msgs) + 1
       IN  \/ \E nms \in Batches(WorkerNameChoices, WorkerBatchBound),
                 has \in WorkerListChoices :
                /\ Len(nms) > 0 => has
                /\ CallsIn(msgs) + Len(nms) <= WorkerCallsBound(w)
                /\ LET calls == [i \in DOMAIN nms |->
                                    [name |-> nms[i], args |-> <<"q">>, id |-> CallId(p, i)]]
                       out == Append(msgs, AIMessage(<<"thought">>, has, calls))
                   IN  workers' = [workers EXCEPT ![w].researcher_messages = out,
                                                  ![w].pc = shouldContinue(out)]
           \/ workers' = [workers EXCEPT ![w] = FailedWorker(workers[w])]
    /\ UNCHANGED <<supPc, supervisor_messages, research_brief, notes,
                   research_iterations, raw_notes, toolMessages>>
    /\ Settle(w)
    /\ UNCHANGED <<sessionVars, searchVars, configVars>>

\* tool_node without the try/catch around tool.invoke: the error of a tool
\* that throws leaves the graph
ToolNodeRethrow(w) ==
    /\ workers[w].pc = "tool_node"
    /\ LET msgs == workers[w].researcher_messages
           toolCalls == Last(msgs).tool_calls
       IN  \E raises \in [DOMAIN toolCalls -> BOOLEAN] :
             /\ \A i \in DOMAIN toolCalls :
                    toolCalls[i].name # "tavily_search" => ~raises[i]
             /\ workers' = IF \E i \in DOMAIN toolCalls : raises[i]
                           THEN [workers EXCEPT ![w] = FailedWorker(workers[w])]
                           ELSE [workers EXCEPT
                                    ![w].researcher_messages =
                                        msgs \o ToolOutputs(toolCalls, raises),
                                    ![w].pc = "llm_call"]
    /\ UNCHANGED <<supPc, supervisor_messages, research_brief, notes,
                   research_iterations, raw_notes, toolMessages>>
    /\ UNCHANGED <<settled, sessionVars, searchVars, configVars>>

\* tool_node: every tool call of the last message is executed in turn; the
\* search is the tool that can throw (thinkTool only formats its argument)
ToolNode(w) ==
    /\ workers[w].pc = "tool_node"
    /\ LET msgs == workers[w].researcher_messages
           toolCalls == Last(msgs).tool_calls
       IN  \E raises \in [DOMAIN toolCalls -> BOOLEAN] :
             /\ \A i \in DOMAIN toolCalls :
                    toolCalls[i].name # "tavily_search" => ~raises[i]
             /\ workers' = [workers EXCEPT
                    ![w].researcher_messages = msgs \o ToolOutputs(toolCalls, raises),
                    ![w].pc = "llm_call"]
    /\ UNCHANGED <<supPc, supervisor_messages, research_brief, notes,
                   research_iterations, raw_notes, toolMessages>>
    /\ UNCHANGED <<settled, sessionVars, searchVars, configVars>>

\* compress_research writing its raw notes into the raw notes of the supervisor
CompressResearchStreaming(w) ==
    /\ workers[w].pc = "compress_research"
    /\ \/ \E text \in CompressedTexts(workers[w].research_topic) :
            /\ workers' = [workers EXCEPT
                   ![w].compressed_research = text,
                   ![w].raw_notes = @ \o RawNotesOf(workers[w].researcher_messages),
                   ![w].pc = "END"]
            /\ raw_notes' = raw_notes \o RawNotesOf(workers[w].researcher_messages)
       \/ workers' = [workers EXCEPT ![w] = FailedWorker(workers[w])] /\ UNCHANGED raw_notes
    /\ UNCHANGED <<supPc, supervisor_messages, research_brief, notes,
                   research_iterations, toolMessages>>
    /\ Settle(w)
    /\ UNCHANGED <<sessionVars, searchVars, configVars>>

\* compress_research: the model answers, or the call throws
CompressResearch(w) ==
    /\ workers[w].pc = "compress_research"
    /\ \/ \E text \in CompressedTexts(workers[w].research_topic) :
            workers' = [workers EXCEPT
                ![w].compressed_research = text,
                ![w].raw_notes = @ \o RawNotesOf(workers[w].researcher_messages),
                ![w].pc = "END"]
       \/ workers' = [workers EXCEPT ![w] = FailedWorker(workers[w])]
    /\ UNCHANGED <<supPc, supervisor_messages, research_brief, notes,
                   research_iterations, raw_notes, toolMessages>>
    /\ Settle(w)
    /\ UNCHANGED <<sessionVars, searchVars, configVars>>

\* llm_call once the bound on recorded invocations is reached: the model issues
\* invocations again; the turns past the recorded ones are not stored
LlmCallMore(w) ==
    /\ \/ /\ workers[w].pc = "llm_call"
          /\ CallsIn(workers[w].researcher_messages) = WorkerCallsBound(w)
       \/ workers[w].pc = "llm_call_more"
    /\ workers' = [workers EXCEPT ![w].pc = "tool_node_more"]
    /\ UNCHANGED <<supPc, supervisor_messages, research_brief, notes,
                   research_iterations, raw_notes, toolMessages>>
    /\ UNCHANGED <<settled, sessionVars, searchVars, configVars>>

\* tool_node on a turn past the recorded ones: back to llm_call
ToolNodeMore(w) ==
    /\ workers[w].pc = "tool_node_more"
    /\ workers' = [workers EXCEPT ![w].pc = "llm_call_more"]
    /\ UNCHANGED <<supPc, supervisor_messages, research_brief, notes,
                   research_iterations, raw_notes, toolMessages>>
    /\ UNCHANGED <<settled, sessionVars, searchVars, configVars>>

\* ----- supervisor graph (multi-agent-supervisor.ts) -----
\* > in place of >=
exceededIterationsStrict(researchIterations) ==
    researchIterations > MaxResearcherIterations

exceededIterations(researchIterations) ==
    researchIterations >= MaxResearcherIterations

noToolCalls(mostRecentMessage) == ~mostRecentMessage.has_tool_calls

\* tool_calls.every in place of tool_calls.some
researchCompleteEvery(mostRecentMessage) ==
    /\ mostRecentMessage.has_tool_calls
    /\ \A i \in DOMAIN mostRecentMessage.tool_calls :
          mostRecentMessage.tool_calls[i].name = "ResearchComplete"

researchComplete(mostRecentMessage) ==
    /\ mostRecentMessage.has_tool_calls
    /\ \E i \in DOMAIN mostRecentMessage.tool_calls :
          mostRecentMessage.tool_calls[i].name = "ResearchComplete"

thinkToolCalls(toolCalls) == SelectSeq(toolCalls, LAMBDA c : c.name = "think_tool")

\* conductResearchCalls cut to the number of units the prompt names
conductResearchCallsCapped(toolCalls) ==
    LET calls == SelectSeq(toolCalls, LAMBDA c : c.name = "ConductResearch")
    IN  SubSeq(calls, 1, IF Len(calls) <= MaxConcurrentResearchUnits THEN Len(calls)
                         ELSE MaxConcurrentResearchUnits)

conductResearchCalls(toolCalls) ==
    SelectSeq(toolCalls, LAMBDA c : c.name = "ConductResearch")

\* the ToolMessages of the think_tool calls and, as toolNode of the researcher
\* does, a not-found ToolMessage for every call of a name that is not known
ThinkToolMessagesAndNotFound(toolCalls) ==
    LET calls == SelectSeq(toolCalls,
                           LAMBDA c : c.name \notin {"ConductResearch", "ResearchComplete"})
    IN  [i \in DOMAIN calls |->
            ToolMessage(IF calls[i].name = "think_tool" THEN thinkTool(calls[i].args)
                        ELSE <<"Error: tool '", calls[i].name, "' not found.">>,
                        calls[i].id, calls[i].name)]

\* the ToolMessages of the think_tool calls
ThinkToolMessages(toolCalls) ==
    LET calls == thinkToolCalls(toolCalls)
    IN  [i \in DOMAIN calls |->
            ToolMessage(thinkTool(calls[i].args), calls[i].id, calls[i].name)]

\* result.compressed_research without the || of the error string
compressedResearchAsIs(result) == result.compressed_research

\* result.compressed_research || "Error synthesizing research report"
compressedResearch(result) ==
    IF Truthy(result.compressed_research) THEN result.compressed_research
    ELSE <<"Error synthesizing research report">>

\* researchToolMessages: one ToolMessage per researchResult
researchToolMessages(researchResults) ==
    [i \in DOMAIN researchResults |->
        ToolMessage(compressedResearch(researchResults[i]),
                    researchResults[i].toolCall.id,
                    researchResults[i].toolCall.name)]

\* the research messages put before the think messages
PushAllResearchFirst(thinkMessages, researchMessages) ==
    researchMessages \o thinkMessages

\* toolMessages after toolMessages.push(...researchToolMessages)
PushAll(thinkMessages, researchMessages) == thinkMessages \o researchMessages

\* allRawNotes without the notes of a result that has no compressed research
allRawNotesSkipEmpty(researchResults) ==
    LET kept == SelectSeq(researchResults, LAMBDA r : Truthy(r.compressed_research))
    IN  [i \in DOMAIN kept |-> Join(kept[i].raw_notes, "\n")]

\* allRawNotes: result.raw_notes.join("\n") per researchResult
allRawNotes(researchResults) ==
    [i \in DOMAIN researchResults |-> Join(researchResults[i].raw_notes, "\n")]

\* the researchers once supervisorTools has gone on: the settled ones are gone
\* with their promises, nothing cancels the ones that still run
StillRunning(ws) ==
    [i \in DOMAIN ws |->
        IF ws[i].pc \in {"END", "FAILED", "gone"}
        THEN [FailedWorker(ws[i]) EXCEPT !.pc = "gone"]
        ELSE ws[i]]

\* Promise.race in place of Promise.all: the first resolved promise resolves it
PromiseAnyResolved(ws) == \E i \in DOMAIN ws : ws[i].pc = "END"

\* Promise.all(researchPromises) resolves: every promise has resolved
PromiseAllResolved(ws) == \A i \in DOMAIN ws : ws[i].pc = "END"

\* Promise.all(researchPromises) rejects: some promise has rejected
PromiseAllRejected(ws) == \E i \in DOMAIN ws : ws[i].pc = "FAILED"

\* researchResults with the values in the order in which the promises settled
PromiseAllValuesAsSettled(ws) == [i \in DOMAIN settled |-> ws[settled[i]]]

\* researchResults: Promise.all resolves with the values in the order of
\* researchPromises, which is the order of conductResearchCalls
PromiseAllValues(ws) == ws

\* the bounds of the model turns of the supervisor: stage = "none" is the
\* supervisor graph run on its own
SupBatchBound ==
    IF research_brief = WideBrief THEN MaxWideBatch
    ELSE IF stage = "none" THEN MaxSupBatch ELSE MaxSessionBatch
SupCallsBound ==
    IF research_brief = WideBrief THEN MaxWideBatch
    ELSE IF stage = "none" THEN MaxSupCalls ELSE MaxSessionCalls
SupDelegatesBound ==
    IF research_brief = WideBrief THEN MaxWideBatch
    ELSE IF stage = "none" THEN MaxDelegates ELSE MaxSessionDelegates
\* the names the model of the supervisor uses in its turns
SupNameChoices ==
    IF research_brief = WideBrief THEN {"ConductResearch"} ELSE SupToolNames

\* the return when shouldEnd with notes taken from raw_notes
EndUpdateHarvestRaw ==
    /\ supPc' = "END"
    /\ notes' = notes \o raw_notes
    /\ research_brief' = (IF Truthy(research_brief) THEN research_brief ELSE <<>>)
    /\ toolMessages' = <<>>
    /\ UNCHANGED <<supervisor_messages, research_iterations, raw_notes>>

\* the return when shouldEnd with research_brief: ""
EndUpdateClearsBrief ==
    /\ supPc' = "END"
    /\ notes' = notes \o getNotesFromToolCalls(supervisor_messages)
    /\ research_brief' = <<>>
    /\ toolMessages' = <<>>
    /\ UNCHANGED <<supervisor_messages, research_iterations, raw_notes>>

\* the return when shouldEnd with supervisor_messages: toolMessages added
EndUpdateKeepsResults ==
    /\ supPc' = "END"
    /\ notes' = notes \o getNotesFromToolCalls(supervisor_messages)
    /\ research_brief' = (IF Truthy(research_brief) THEN research_brief ELSE <<>>)
    /\ supervisor_messages' = supervisor_messages \o toolMessages
    /\ toolMessages' = <<>>
    /\ UNCHANGED <<research_iterations, raw_notes>>

\* the return of supervisorTools when shouldEnd
EndUpdate ==
    /\ supPc' = "END"
    /\ notes' = notes \o getNotesFromToolCalls(supervisor_messages)
    /\ research_brief' = (IF Truthy(research_brief) THEN research_brief ELSE <<>>)
    /\ toolMessages' = <<>>
    /\ UNCHANGED <<supervisor_messages, research_iterations, raw_notes>>

\* supervisor with research_iterations counting the tool calls of the turn
SupervisorCountsCalls ==
    /\ supPc = "supervisor"
    /\ \/ \E nms \in Batches(SupNameChoices, SupBatchBound), has \in BOOLEAN :
            /\ Len(nms) > 0 => has
            /\ CallsIn(supervisor_messages) + Len(nms) <= SupCallsBound
            /\ DelegatesIn(supervisor_messages) + CountName(nms, "ConductResearch")
                   <= SupDelegatesBound
            /\ LET p == Len(supervisor_messages) + 1
                   calls == [i \in DOMAIN nms |->
                       [name |-> nms[i],
                        args |-> IF nms[i] = "ConductResearch" THEN <<Topics[i]>>
                                 ELSE IF nms[i] = "think_tool" THEN <<"reflection">>
                                 ELSE <<>>,
                        id |-> CallId(p, i)]]
               IN  supervisor_messages' =
                       Append(supervisor_messages, AIMessage(<<"plan">>, has, calls))
            /\ research_iterations' =
                   IF research_iterations + Len(nms) <= MaxResearcherIterations
                   THEN research_iterations + Len(nms)
                   ELSE MaxResearcherIterations
            /\ supPc' = "supervisor_tools"
       \/ /\ supPc' = "FAILED"
          /\ UNCHANGED <<supervisor_messages, research_iterations>>
    /\ UNCHANGED <<research_brief, notes, raw_notes, toolMessages, workers, settled,
                   sessionVars, searchVars, configVars>>

\* supervisor: the model answers with a turn, or the call throws and the
\* error leaves the graph
Supervisor ==
    /\ supPc = "supervisor"
    /\ \/ \E nms \in Batches(SupNameChoices, SupBatchBound), has \in BOOLEAN :
            /\ Len(nms) > 0 => has
            /\ CallsIn(supervisor_messages) + Len(nms) <= SupCallsBound
            /\ DelegatesIn(supervisor_messages) + CountName(nms, "ConductResearch")
                   <= SupDelegatesBound
            /\ LET p == Len(supervisor_messages) + 1
                   calls == [i \in DOMAIN nms |->
                       [name |-> nms[i],
                        args |-> IF nms[i] = "ConductResearch" THEN <<Topics[i]>>
                                 ELSE IF nms[i] = "think_tool" THEN <<"reflection">>
                                 ELSE <<>>,
                        id |-> CallId(p, i)]]
               IN  supervisor_messages' =
                       Append(supervisor_messages, AIMessage(<<"plan">>, has, calls))
            /\ research_iterations' = research_iterations + 1
            /\ supPc' = "supervisor_tools"
       \/ /\ supPc' = "FAILED"
          /\ UNCHANGED <<supervisor_messages, research_iterations>>
    /\ UNCHANGED <<research_brief, notes, raw_notes, toolMessages, workers, settled,
                   sessionVars, searchVars, configVars>>

\* supervisorTools up to its first suspension on the researchers, or to its
\* return when it has none to wait for
SupervisorTools ==
    /\ supPc = "supervisor_tools"
    /\ LET mostRecentMessage == Last(supervisor_messages)
           toolCalls == mostRecentMessage.tool_calls
       IN  IF \/ exceededIterations(research_iterations)
              \/ noToolCalls(mostRecentMessage)
              \/ researchComplete(mostRecentMessage)
           THEN EndUpdate /\ UNCHANGED <<workers, settled>>
           ELSE \/ \* thinkTool.invoke throws (the reflection the model gave
                   \* is not a string): the catch block ends the phase
                   /\ Len(thinkToolCalls(toolCalls)) > 0
                   /\ EndUpdate
                   /\ UNCHANGED <<workers, settled>>
                \/ IF Len(conductResearchCalls(toolCalls)) > 0
                   THEN /\ toolMessages' = ThinkToolMessages(toolCalls)
                        /\ workers' = [i \in DOMAIN conductResearchCalls(toolCalls) |->
                                          NewWorker(conductResearchCalls(toolCalls)[i])]
                        /\ settled' = <<>>
                        /\ supPc' = "awaiting"
                        /\ UNCHANGED <<supervisor_messages, research_brief, notes,
                                       research_iterations, raw_notes>>
                   ELSE /\ supervisor_messages' =
                               supervisor_messages \o ThinkToolMessages(toolCalls)
                        /\ raw_notes' = raw_notes \o <<>>
                        /\ supPc' = "supervisor"
                        /\ toolMessages' = <<>>
                        /\ UNCHANGED <<research_brief, notes, research_iterations,
                                       workers, settled>>
    /\ UNCHANGED <<sessionVars, searchVars, configVars>>

\* supervisorTools after Promise.all resolved, with the compressed research
\* of the batch returned under notes as well
SupervisorToolsResumeHarvesting ==
    /\ supPc = "awaiting"
    /\ PromiseAllResolved(workers)
    /\ LET researchResults == PromiseAllValues(workers)
       IN  /\ supervisor_messages' =
                  supervisor_messages
                      \o PushAll(toolMessages, researchToolMessages(researchResults))
           /\ raw_notes' = raw_notes \o allRawNotes(researchResults)
           /\ notes' = notes \o [i \in DOMAIN researchResults |->
                                    compressedResearch(researchResults[i])]
    /\ supPc' = "supervisor"
    /\ toolMessages' = <<>>
    /\ workers' = StillRunning(workers)
    /\ UNCHANGED <<research_brief, research_iterations, settled,
                   sessionVars, searchVars, configVars>>

\* supervisorTools after Promise.all resolved, with a supervisor_messages
\* channel that keeps the last update in place of the history
SupervisorToolsResumeReplacing ==
    /\ supPc = "awaiting"
    /\ PromiseAllResolved(workers)
    /\ LET researchResults == PromiseAllValues(workers)
       IN  /\ supervisor_messages' =
                  <<Last(supervisor_messages)>>
                      \o PushAll(toolMessages, researchToolMessages(researchResults))
           /\ raw_notes' = raw_notes \o allRawNotes(researchResults)
    /\ supPc' = "supervisor"
    /\ toolMessages' = <<>>
    /\ workers' = StillRunning(workers)
    /\ UNCHANGED <<research_brief, notes, research_iterations, settled,
                   sessionVars, searchVars, configVars>>

\* supervisorTools after Promise.all resolved: aggregate and go on
SupervisorToolsResume ==
    /\ supPc = "awaiting"
    /\ PromiseAllResolved(workers)
    /\ LET researchResults == PromiseAllValues(workers)
       IN  /\ supervisor_messages' =
                  supervisor_messages
                      \o PushAll(toolMessages, researchToolMessages(researchResults))
           /\ raw_notes' = raw_notes \o allRawNotes(researchResults)
    /\ supPc' = "supervisor"
    /\ toolMessages' = <<>>
    /\ workers' = StillRunning(workers)
    /\ UNCHANGED <<research_brief, notes, research_iterations, settled,
                   sessionVars, searchVars, configVars>>

\* a catch around each researcher in place of the one around the batch: the
\* step waits for all of them and goes on with what the others returned
SupervisorToolsCatchEach ==
    /\ supPc = "awaiting"
    /\ PromiseAllRejected(workers)
    /\ \A i \in DOMAIN workers : workers[i].pc \in {"END", "FAILED"}
    /\ supervisor_messages' =
           supervisor_messages \o PushAll(toolMessages, researchToolMessages(workers))
    /\ raw_notes' = raw_notes \o allRawNotes(SelectSeq(workers, LAMBDA r : r.pc = "END"))
    /\ supPc' = "supervisor"
    /\ toolMessages' = <<>>
    /\ workers' = StillRunning(workers)
    /\ UNCHANGED <<research_brief, notes, research_iterations, settled,
                   sessionVars, searchVars, configVars>>

\* supervisorTools without its catch block: the rejection leaves the graph
SupervisorToolsRethrow ==
    /\ supPc = "awaiting"
    /\ PromiseAllRejected(workers)
    /\ supPc' = "FAILED"
    /\ toolMessages' = <<>>
    /\ workers' = StillRunning(workers)
    /\ UNCHANGED <<supervisor_messages, research_brief, notes, research_iterations,
                   raw_notes, settled, sessionVars, searchVars, configVars>>

\* supervisorTools after Promise.all rejected: the catch block ends the phase
SupervisorToolsCatch ==
    /\ supPc = "awaiting"
    /\ PromiseAllRejected(workers)
    /\ EndUpdate
    /\ workers' = StillRunning(workers)
    /\ UNCHANGED <<settled, sessionVars, searchVars, configVars>>

\* no deepResearch graph around the graph that runs
NoSession ==
    /\ stage = "none"
    /\ messages = <<>>
    /\ final_report = <<>>

\* no tavily_search call followed step by step
NoSearch ==
    /\ searchPc = "none"
    /\ searchDocs = <<>>
    /\ uniqueResults = <<>>
    /\ summarizedResults = <<>>
    /\ formattedOutput = <<>>
    /\ observation = <<>>

Init ==
    /\ supPc = "supervisor"
    /\ supervisor_messages = <<HumanMessage(Brief \o <<".">>)>>
    /\ research_brief = Brief
    /\ notes = <<>>
    /\ research_iterations = 0
    /\ raw_notes = <<>>
    /\ toolMessages = <<>>
    /\ workers = <<>>
    /\ settled = <<>>
    /\ maxResearcherIterations = MaxResearcherIterations
    /\ NoSession
    /\ NoSearch

Next ==
    \/ Supervisor
    \/ SupervisorTools
    \/ SupervisorToolsResume
    \/ SupervisorToolsCatch
    \/ \E w \in WorkerIds : LlmCall(w)
    \/ \E w \in WorkerIds : ToolNode(w)
    \/ \E w \in WorkerIds : CompressResearch(w)
    \/ \E w \in WorkerIds : LlmCallMore(w)
    \/ \E w \in WorkerIds : ToolNodeMore(w)

Spec == Init /\ [][Next]_vars

\* the supervisor graph started under one of several configured maxima
InitConfig ==
    /\ supPc = "supervisor"
    /\ supervisor_messages = <<HumanMessage(Brief \o <<".">>)>>
    /\ research_brief = Brief
    /\ notes = <<>>
    /\ research_iterations = 0
    /\ raw_notes = <<>>
    /\ toolMessages = <<>>
    /\ workers = <<>>
    /\ settled = <<>>
    /\ maxResearcherIterations \in ConfiguredMaxima
    /\ NoSession
    /\ NoSearch

ConfigSpec == InitConfig /\ [][Next]_vars

\* the supervisor graph invoked with a brief that the model answers with
\* wide batches of delegations
InitWide ==
    /\ supPc = "supervisor"
    /\ supervisor_messages = <<HumanMessage(WideBrief \o <<".">>)>>
    /\ research_brief = WideBrief
    /\ notes = <<>>
    /\ research_iterations = 0
    /\ raw_notes = <<>>
    /\ toolMessages = <<>>
    /\ workers = <<>>
    /\ settled = <<>>
    /\ maxResearcherIterations = MaxResearcherIterations
    /\ NoSession
    /\ NoSearch

WideSpec == InitWide /\ [][Next]_vars

\* the researcher graph invoked on its own (graph research_agent) with one
\* human message
InitAgent ==
    /\ supPc = "none"
    /\ supervisor_messages = <<>>
    /\ research_brief = <<>>
    /\ notes = <<>>
    /\ research_iterations = 0
    /\ raw_notes = <<>>
    /\ toolMessages = <<>>
    /\ workers = <<NewWorker([name |-> "", args |-> <<"solar">>, id |-> NoId])>>
    /\ settled = <<>>
    /\ maxResearcherIterations = MaxResearcherIterations
    /\ NoSession
    /\ NoSearch

NextAgent ==
    \/ \E w \in WorkerIds : LlmCall(w)
    \/ \E w \in WorkerIds : ToolNode(w)
    \/ \E w \in WorkerIds : CompressResearch(w)
    \/ \E w \in WorkerIds : LlmCallMore(w)
    \/ \E w \in WorkerIds : ToolNodeMore(w)

AgentSpec == InitAgent /\ [][NextAgent]_vars

\* every node that can run does run: the scheduler of the two graphs starts
\* the next node as soon as the previous one returned
FairSpec ==
    /\ Spec
    /\ WF_vars(Supervisor)
    /\ WF_vars(SupervisorTools)
    /\ WF_vars(SupervisorToolsResume)
    /\ WF_vars(SupervisorToolsCatch)
    /\ \A w \in 1..MaxDelegates :
          WF_vars(w \in WorkerIds /\ (LlmCall(w) \/ ToolNode(w) \/ CompressResearch(w)
                                      \/ LlmCallMore(w) \/ ToolNodeMore(w)))

\* ----- search pipeline (utils.ts) -----
\* A text is a sequence of pieces; the piece Run500 stands for a run of 500
\* characters, every other piece of a page text for one character.
Run500 == "<500 characters>"

PieceLength(piece) == IF piece = Run500 THEN 500 ELSE 1

\* String.prototype.length
RECURSIVE Length(_)
Length(str) == IF str = <<>> THEN 0 ELSE PieceLength(Head(str)) + Length(Tail(str))

\* String.prototype.substring(0, n), for a cut that falls between two pieces
RECURSIVE Substring(_, _)
Substring(str, n) ==
    IF str = <<>> \/ PieceLength(Head(str)) > n THEN <<>>
    ELSE <<Head(str)>> \o Substring(Tail(str), n - PieceLength(Head(str)))

Urls == {"https://a.example", "https://b.example", "https://c.example"}

\* raw_content of the page behind a URL: none, a text of exactly
\* SummaryFallbackChars characters, a longer text
RawContentOf(url) ==
    IF url = "https://a.example" THEN <<>>
    ELSE IF url = "https://b.example" THEN <<Run500, Run500>>
    ELSE <<Run500, Run500, "s", "t">>

\* the r-th result of the response to the q-th query
SearchResult(q, r, url) ==
    [url |-> url,
     title |-> <<"title ", ToString(q), ".", ToString(r)>>,
     content |-> <<"snippet ", ToString(q), ".", ToString(r)>>,
     raw_content |-> RawContentOf(url)]

\* the URLs of the results of one response
UrlLists(maxResults) == UNION {[1..k -> Urls] : k \in 0..maxResults}

\* what tavilySearchMultiple can return for n queries: one response per query
SearchDocsChoices(n) ==
    {[q \in 1..n |-> [results |-> [r \in DOMAIN f[q] |-> SearchResult(q, r, f[q][r])]]]
        : f \in [1..n -> UrlLists(MaxResults)]}

\* uniqueResults[url], undefined (<<>>) when the object has no such key
Lookup(object, url) ==
    LET at == {i \in DOMAIN object : object[i].url = url}
    IN  IF at = {} THEN <<>> ELSE <<object[CHOOSE i \in at : TRUE].result>>

\* all results of all responses, in the order of the two nested loops
AllResults(searchResults) ==
    Flatten([i \in DOMAIN searchResults |-> searchResults[i].results])

\* a later result with the same URL replaces the one kept
RECURSIVE KeepLast(_, _)
KeepLast(uniq, results) ==
    IF results = <<>> THEN uniq
    ELSE LET result == Head(results)
         IN  KeepLast(IF Lookup(uniq, result.url) = <<>>
                      THEN Append(uniq, [url |-> result.url, result |-> result])
                      ELSE [i \in DOMAIN uniq |->
                               IF uniq[i].url = result.url
                               THEN [url |-> result.url, result |-> result]
                               ELSE uniq[i]],
                      Tail(results))

deduplicateLastWins(searchResults) == KeepLast(<<>>, AllResults(searchResults))

\* if (!uniqueResults[url]) uniqueResults[url] = result, over the results
RECURSIVE KeepFirst(_, _)
KeepFirst(uniq, results) ==
    IF results = <<>> THEN uniq
    ELSE LET result == Head(results)
         IN  KeepFirst(IF Lookup(uniq, result.url) = <<>>
                       THEN Append(uniq, [url |-> result.url, result |-> result])
                       ELSE uniq,
                       Tail(results))

\* deduplicateSearchResults: an object is its entries in insertion order
deduplicateSearchResults(searchResults) == KeepFirst(<<>>, AllResults(searchResults))

\* summarizeWebpageContent when the model call returns
FormattedSummary(webpageContent) ==
    <<"<summary>\n", "summary of ">> \o webpageContent
        \o <<"\n</summary>\n\n<key_excerpts>\n", "excerpts", "\n</key_excerpts>\n">>

\* the catch block with > SummaryFallbackChars read as >=
SummaryFallbackFrom(webpageContent) ==
    IF Length(webpageContent) >= SummaryFallbackChars
    THEN Substring(webpageContent, SummaryFallbackChars) \o <<"...">>
    ELSE webpageContent

\* summarizeWebpageContent when the model call throws: the catch block
SummaryFallback(webpageContent) ==
    IF Length(webpageContent) > SummaryFallbackChars
    THEN Substring(webpageContent, SummaryFallbackChars) \o <<"...">>
    ELSE webpageContent

summarizeWebpageContent(webpageContent, throws) ==
    IF throws THEN SummaryFallback(webpageContent) ELSE FormattedSummary(webpageContent)

\* processSearchResults summarizing the snippet of an entry without raw content
processSearchResultsAll(uniq, throws) ==
    [i \in DOMAIN uniq |->
        [url |-> uniq[i].url,
         result |->
            [title |-> uniq[i].result.title,
             content |-> summarizeWebpageContent(
                             IF Truthy(uniq[i].result.raw_content)
                             THEN uniq[i].result.raw_content
                             ELSE uniq[i].result.content,
                             throws[i])]]]

\* processSearchResults: throws[i] says whether the model call for the i-th
\* entry throws
processSearchResults(uniq, throws) ==
    [i \in DOMAIN uniq |->
        [url |-> uniq[i].url,
         result |->
            [title |-> uniq[i].result.title,
             content |-> IF ~Truthy(uniq[i].result.raw_content)
                         THEN uniq[i].result.content
                         ELSE summarizeWebpageContent(uniq[i].result.raw_content,
                                                      throws[i])]]]

NoValidResults ==
    <<"No valid search results found. Please try different search queries or use a different search API.">>

\* "-".repeat(80) + "\n"
Rule == [j \in 1..RuleWidth |-> "-"] \o <<"\n">>

\* the block formatSearchOutput adds for the entry at index i (from 0)
SourceBlock(i, url, result) ==
    <<"\n\n--- SOURCE ", ToString(i + 1), ": ">> \o result.title \o <<" ---\n">>
        \o <<"URL: ", url, "\n\n">>
        \o <<"SUMMARY:\n">> \o result.content \o <<"\n\n">>
        \o Rule

\* formatSearchOutput numbering its blocks from 0
formatSearchOutputFromZero(summarized) ==
    IF Len(summarized) = 0
    THEN NoValidResults
    ELSE <<"Search Results:\n\n">>
             \o Flatten([i \in DOMAIN summarized |->
                            SourceBlock(i - 2, summarized[i].url, summarized[i].result)])

\* formatSearchOutput with its output buffer kept from one call to the next
formatSearchOutputKeeping(summarized) ==
    IF Len(summarized) = 0
    THEN (IF formattedOutput = <<>> THEN NoValidResults ELSE formattedOutput)
    ELSE <<"Search Results:\n\n">>
             \o Flatten([i \in DOMAIN summarized |->
                            SourceBlock(i - 1, summarized[i].url, summarized[i].result)])

formatSearchOutput(summarized) ==
    IF Len(summarized) = 0
    THEN NoValidResults
    ELSE <<"Search Results:\n\n">>
             \o Flatten([i \in DOMAIN summarized |->
                            SourceBlock(i - 1, summarized[i].url, summarized[i].result)])

otherVars ==
    <<supPc, supervisor_messages, research_brief, notes, research_iterations,
      raw_notes, toolMessages, workers, settled, sessionVars, configVars>>

\* tavilySearch: tavilySearchMultiple returns the responses, or the search
\* service throws and the error leaves the tool
TavilySearchMultiple ==
    /\ searchPc = "search"
    /\ \/ \E n \in 1..MaxQueries : \E docs \in SearchDocsChoices(n) :
            /\ searchDocs' = docs
            /\ searchPc' = "deduplicate"
       \/ /\ searchPc' = "threw"
          /\ UNCHANGED searchDocs
    /\ UNCHANGED <<uniqueResults, summarizedResults, formattedOutput, observation,
                   otherVars>>

DeduplicateSearchResults ==
    /\ searchPc = "deduplicate"
    /\ uniqueResults' = deduplicateSearchResults(searchDocs)
    /\ searchPc' = "process"
    /\ UNCHANGED <<searchDocs, summarizedResults, formattedOutput, observation,
                   otherVars>>

\* processSearchResults with summarizeWebpageContent passing the error on
ProcessSearchResultsNoCatch ==
    /\ searchPc = "process"
    /\ \E throws \in [DOMAIN uniqueResults -> BOOLEAN] :
          /\ \A i \in DOMAIN uniqueResults :
                 throws[i] => Truthy(uniqueResults[i].result.raw_content)
          /\ IF \E i \in DOMAIN uniqueResults : throws[i]
             THEN searchPc' = "threw" /\ UNCHANGED summarizedResults
             ELSE /\ summarizedResults' = processSearchResults(uniqueResults, throws)
                  /\ searchPc' = "format"
    /\ UNCHANGED <<searchDocs, uniqueResults, formattedOutput, observation,
                   otherVars>>

\* processSearchResults: the model call of any entry that has raw content
\* can throw
ProcessSearchResults ==
    /\ searchPc = "process"
    /\ \E throws \in [DOMAIN uniqueResults -> BOOLEAN] :
          /\ \A i \in DOMAIN uniqueResults :
                 throws[i] => Truthy(uniqueResults[i].result.raw_content)
          /\ summarizedResults' = processSearchResults(uniqueResults, throws)
          /\ searchPc' = "format"
    /\ UNCHANGED <<searchDocs, uniqueResults, formattedOutput, observation,
                   otherVars>>

FormatSearchOutput ==
    /\ searchPc = "format"
    /\ formattedOutput' = formatSearchOutput(summarizedResults)
    /\ searchPc' = "formatted"
    /\ UNCHANGED <<searchDocs, uniqueResults, summarizedResults, observation,
                   otherVars>>

\* toolNode around the call: the string the tool returned, or the error text
SearchToolNode ==
    /\ searchPc \in {"formatted", "threw"}
    /\ observation' = IF searchPc = "threw"
                      THEN <<"Error executing tool '", "tavily_search", "': ", "error">>
                      ELSE formattedOutput
    /\ searchPc' = "observed"
    /\ UNCHANGED <<searchDocs, uniqueResults, summarizedResults, formattedOutput,
                   otherVars>>

\* the next tavily_search call: its locals are fresh
NextSearch ==
    /\ searchPc = "observed"
    /\ searchPc' = "search"
    /\ searchDocs' = <<>>
    /\ uniqueResults' = <<>>
    /\ summarizedResults' = <<>>
    /\ UNCHANGED <<formattedOutput, observation, otherVars>>

\* one tavily_search call after the other, no graph around them
InitSearch ==
    /\ supPc = "none"
    /\ supervisor_messages = <<>>
    /\ research_brief = <<>>
    /\ notes = <<>>
    /\ research_iterations = 0
    /\ raw_notes = <<>>
    /\ toolMessages = <<>>
    /\ workers = <<>>
    /\ settled = <<>>
    /\ maxResearcherIterations = MaxResearcherIterations
    /\ NoSession
    /\ searchPc = "search"
    /\ searchDocs = <<>>
    /\ uniqueResults = <<>>
    /\ summarizedResults = <<>>
    /\ formattedOutput = <<>>
    /\ observation = <<>>

NextSearchStep ==
    \/ TavilySearchMultiple
    \/ DeduplicateSearchResults
    \/ ProcessSearchResults
    \/ FormatSearchOutput
    \/ SearchToolNode
    \/ NextSearch

SearchSpec == InitSearch /\ [][NextSearchStep]_vars

\* ----- deepResearch graph (utils.ts, config.ts) -----
UserRequest == <<"request">>

\* finalReportGeneration: finalReportPrompt, the request built from
\* state.research_brief and findings
finalReportPrompt(brief, findings) ==
    <<"brief: ">> \o brief \o <<"findings: ">> \o findings

\* texts the model can answer the final report request with: a report that
\* quotes the request, or one that does not
ReportTexts(prompt) == {<<"report on ">> \o prompt, <<"short report">>}

\* the state of the supervisor subgraph and of its researchers
phaseVars ==
    <<supPc, supervisor_messages, research_brief, notes, research_iterations,
      raw_notes, toolMessages, workers, settled>>

\* clarify_with_user that goes on to the brief after asking its question
ClarifyWithUserGoesOn ==
    /\ stage = "clarify_with_user"
    /\ \/ \E need_clarification \in BOOLEAN :
            /\ messages' = Append(messages,
                                  AIMessage(IF need_clarification THEN <<"question">>
                                            ELSE <<"verification">>, TRUE, <<>>))
            /\ stage' = "write_research_brief"
       \/ stage' = "FAILED" /\ UNCHANGED messages
    /\ UNCHANGED <<final_report, phaseVars, searchVars, configVars>>

\* clarifyWithUser: the model decides, or the call throws
ClarifyWithUser ==
    /\ stage = "clarify_with_user"
    /\ \/ \E need_clarification \in BOOLEAN :
            IF need_clarification
            THEN /\ messages' = Append(messages, AIMessage(<<"question">>, TRUE, <<>>))
                 /\ stage' = "END"
            ELSE /\ messages' = Append(messages, AIMessage(<<"verification">>, TRUE, <<>>))
                 /\ stage' = "write_research_brief"
       \/ stage' = "FAILED" /\ UNCHANGED messages
    /\ UNCHANGED <<final_report, phaseVars, searchVars, configVars>>

\* writeResearchBrief, then the edge to supervisor_subgraph: the model writes
\* the brief, or the call throws
WriteResearchBrief ==
    /\ stage = "write_research_brief"
    /\ \/ /\ research_brief' = Brief
          /\ supervisor_messages' =
                 supervisor_messages \o <<HumanMessage(Brief \o <<".">>)>>
          /\ supPc' = "supervisor"
          /\ stage' = "supervisor_subgraph"
       \/ /\ stage' = "FAILED"
          /\ UNCHANGED <<research_brief, supervisor_messages, supPc>>
    /\ UNCHANGED <<messages, final_report, notes, research_iterations, raw_notes,
                   toolMessages, workers, settled, searchVars, configVars>>

\* supervisor_subgraph is over: the edge to final_report_generation, or the
\* error of the subgraph leaves the graph
SupervisorSubgraph ==
    /\ stage = "supervisor_subgraph"
    /\ \/ supPc = "END" /\ stage' = "final_report_generation"
       \/ supPc = "FAILED" /\ stage' = "FAILED"
    /\ UNCHANGED <<messages, final_report, phaseVars, searchVars, configVars>>

\* finalReportGeneration with the findings joined from raw_notes
FinalReportGenerationFromRawNotes ==
    /\ stage = "final_report_generation"
    /\ \/ \E content \in ReportTexts(finalReportPrompt(
                                        research_brief, Join(raw_notes, "\n"))) :
            /\ final_report' = content
            /\ messages' = Append(messages,
                                  HumanMessage(<<"Here is the final report: ">> \o content))
            /\ stage' = "END"
       \/ stage' = "FAILED" /\ UNCHANGED <<messages, final_report>>
    /\ UNCHANGED <<phaseVars, searchVars, configVars>>

\* finalReportGeneration: the model writes the report, or the call throws
FinalReportGeneration ==
    /\ stage = "final_report_generation"
    /\ \/ \E content \in ReportTexts(finalReportPrompt(
                                        research_brief, Join(notes, "\n"))) :
            /\ final_report' = content
            /\ messages' = Append(messages,
                                  HumanMessage(<<"Here is the final report: ">> \o content))
            /\ stage' = "END"
       \/ stage' = "FAILED" /\ UNCHANGED <<messages, final_report>>
    /\ UNCHANGED <<phaseVars, searchVars, configVars>>

\* deepResearch.invoke({messages: [request]})
InitSession ==
    /\ supPc = "idle"
    /\ supervisor_messages = <<>>
    /\ research_brief = <<>>
    /\ notes = <<>>
    /\ research_iterations = 0
    /\ raw_notes = <<>>
    /\ toolMessages = <<>>
    /\ workers = <<>>
    /\ settled = <<>>
    /\ maxResearcherIterations = MaxResearcherIterations
    /\ stage = "clarify_with_user"
    /\ messages = <<HumanMessage(UserRequest)>>
    /\ final_report = <<>>
    /\ NoSearch

NextSession ==
    \/ ClarifyWithUser
    \/ WriteResearchBrief
    \/ SupervisorSubgraph
    \/ FinalReportGeneration
    \/ Supervisor
    \/ SupervisorTools
    \/ SupervisorToolsResume
    \/ SupervisorToolsCatch
    \/ \E w \in WorkerIds : LlmCall(w)
    \/ \E w \in WorkerIds : ToolNode(w)
    \/ \E w \in WorkerIds : CompressResearch(w)
    \/ \E w \in WorkerIds : LlmCallMore(w)
    \/ \E w \in WorkerIds : ToolNodeMore(w)

SessionSpec == InitSession /\ [][NextSession]_vars

TypeOK ==
    /\ supPc \in {"none", "idle", "supervisor", "supervisor_tools", "awaiting",
                  "END", "FAILED"}
    /\ stage \in {"none", "clarify_with_user", "write_research_brief",
                  "supervisor_subgraph", "final_report_generation", "END", "FAILED"}
    /\ searchPc \in {"none", "search", "deduplicate", "process", "format",
                     "formatted", "threw", "observed"}
    /\ research_iterations \in 0..MaxResearcherIterations
    /\ maxResearcherIterations \in ConfiguredMaxima

\* ----- properties -----
Running(worker) == worker.pc \notin {"END", "FAILED", "gone"}

IsToolResult(m, call) ==
    m.type = "tool" /\ m.tool_call_id = call.id /\ m.name = call.name

\* C1: a tool_node step of a researcher appends exactly one ToolMessage per
\* tool call of the latest model turn, the i-th carrying the id and the name
\* of the i-th call, whether the call succeeds, names a tool that is not
\* bound, or raises.
C1_ToolNodeAnswersEveryCall ==
    [][\A w \in DOMAIN workers :
          (workers[w].pc = "tool_node" /\ workers'[w] # workers[w]) =>
              LET old == workers[w].researcher_messages
                  new == workers'[w].researcher_messages
                  calls == Last(old).tool_calls
              IN  /\ Len(new) = Len(old) + Len(calls)
                  /\ SubSeq(new, 1, Len(old)) = old
                  /\ \A i \in DOMAIN calls : IsToolResult(new[Len(old) + i], calls[i])
      ]_vars

\* C1 witness: a batch of three calls was answered: one search that
\* succeeded, one tool that is not bound, one search that raised.
C1_Witness ==
    \E w \in DOMAIN workers :
        LET m == workers[w].researcher_messages
        IN  /\ Len(m) = 5
            /\ Len(m[2].tool_calls) = 3
            /\ m[3].content = tavilySearch(<<"q">>)
            /\ m[4].content = <<"Error: tool '", "unknown_tool", "' not found.">>
            /\ m[5].content = <<"Error executing tool '", "tavily_search", "': ", "error">>

\* C2: under every model, the supervisor phase comes to an end.
C2_PhaseEnds == <>(supPc \in {"END", "FAILED"})

\* C3: the supervisor is never at its decision step (nor about to execute
\* the next batch) while a researcher of an earlier batch is still running.
C3_FanInBarrier ==
    supPc \in {"supervisor", "supervisor_tools"} =>
        \A w \in DOMAIN workers : ~Running(workers[w])

\* C3 witness: the supervisor decides again after a batch of two researchers.
C3_Witness ==
    /\ supPc = "supervisor"
    /\ Len(workers) = 2
    /\ Len(SelectSeq(supervisor_messages,
                     LAMBDA m : m.type = "tool" /\ m.name = "ConductResearch")) = 2

ErrorReport == <<"Error synthesizing research report">>

Names(calls) == [i \in DOMAIN calls |-> calls[i].name]

C5_EveryInvocationAnswered ==
    supPc = "supervisor" =>
        \A i \in DOMAIN AllCalls(supervisor_messages) :
            Cardinality({j \in DOMAIN supervisor_messages :
                            /\ supervisor_messages[j].type = "tool"
                            /\ supervisor_messages[j].tool_call_id =
                                   AllCalls(supervisor_messages)[i].id}) = 1

\* C6: a supervisor_tools step on a latest turn without tool calls (no list
\* or an empty list) ends the phase.
C6_NoInvocationsEndsPhase ==
    [][(/\ supPc = "supervisor_tools"
        /\ \/ ~Last(supervisor_messages).has_tool_calls
           \/ Last(supervisor_messages).tool_calls = <<>>) =>
          supPc' = "END"
      ]_vars

\* C7: a supervisor_tools step on a latest turn that holds a ResearchComplete
\* call ends the phase, spawns no researcher, runs no reflection and appends
\* no ToolMessage, whatever else the turn holds.
C7_ResearchCompleteEndsFirst ==
    [][(/\ supPc = "supervisor_tools"
        /\ \E i \in DOMAIN Last(supervisor_messages).tool_calls :
              Last(supervisor_messages).tool_calls[i].name = "ResearchComplete") =>
          /\ supPc' = "END"
          /\ supervisor_messages' = supervisor_messages
          /\ workers' = workers
          /\ toolMessages' = <<>>
          /\ raw_notes' = raw_notes
      ]_vars

\* C7 witness: the phase ended below the cap on a turn that holds a
\* think_tool, a ConductResearch and a ResearchComplete call.
C7_Witness ==
    /\ supPc = "END"
    /\ research_iterations < MaxResearcherIterations
    /\ Last(supervisor_messages).type = "ai"
    /\ {"think_tool", "ConductResearch", "ResearchComplete"} \subseteq
           {Last(supervisor_messages).tool_calls[i].name :
               i \in DOMAIN Last(supervisor_messages).tool_calls}

\* C8: a decision step that starts with the counter at the cap minus one
\* takes it to the cap; the supervisor_tools step at the cap ends the phase,
\* spawns no researcher and appends no ToolMessage; so every supervisor_tools
\* step that executes tool calls runs with the counter below the cap.
C8_IterationCap ==
    [][/\ (/\ supPc = "supervisor"
           /\ research_iterations = MaxResearcherIterations - 1
           /\ supPc' = "supervisor_tools") =>
              research_iterations' = MaxResearcherIterations
       /\ (supPc = "supervisor_tools" /\ research_iterations = MaxResearcherIterations) =>
              /\ supPc' = "END"
              /\ supervisor_messages' = supervisor_messages
              /\ workers' = workers
              /\ toolMessages' = <<>>
       /\ (supPc = "supervisor_tools" /\ supPc' \in {"awaiting", "supervisor"}) =>
              research_iterations < MaxResearcherIterations
      ]_vars

\* C8 witness: the phase ended at the cap on a turn that holds a
\* ConductResearch call, which nothing answers.
C8_Witness ==
    /\ supPc = "END"
    /\ research_iterations = MaxResearcherIterations
    /\ Last(supervisor_messages).type = "ai"
    /\ "ConductResearch" \in {Last(supervisor_messages).tool_calls[i].name :
                                 i \in DOMAIN Last(supervisor_messages).tool_calls}

\* the tool calls of a batch that supervisorTools answers
AnsweredCalls(toolCalls) ==
    SelectSeq(toolCalls, LAMBDA c : c.name \in {"think_tool", "ConductResearch"})

\* C9 as stated: the ToolMessages a supervisor_tools step appends are in the
\* order of the tool calls of the batch.
C9_ResultsInInvocationOrder ==
    [][(supPc \in {"supervisor_tools", "awaiting"} /\ supPc' = "supervisor") =>
          LET old == Len(supervisor_messages)
              calls == AnsweredCalls(Last(supervisor_messages).tool_calls)
          IN  /\ Len(supervisor_messages') = old + Len(calls)
              /\ \A i \in DOMAIN calls :
                    IsToolResult(supervisor_messages'[old + i], calls[i])
      ]_vars

\* C9 as amended: the ToolMessages a supervisor_tools step appends are those
\* of the think_tool calls in the order of the batch, followed by those of
\* the ConductResearch calls in the order of the batch.
C9_ResultsThinkThenResearch ==
    [][(supPc \in {"supervisor_tools", "awaiting"} /\ supPc' = "supervisor") =>
          LET old == Len(supervisor_messages)
              batch == Last(supervisor_messages).tool_calls
              calls == SelectSeq(batch, LAMBDA c : c.name = "think_tool")
                       \o SelectSeq(batch, LAMBDA c : c.name = "ConductResearch")
          IN  /\ Len(supervisor_messages') = old + Len(calls)
              /\ \A i \in DOMAIN calls :
                    IsToolResult(supervisor_messages'[old + i], calls[i])
      ]_vars

\* C9 witness: a batch ConductResearch, think_tool, ConductResearch was
\* answered by three ToolMessages.
C9_Witness ==
    \E k \in DOMAIN supervisor_messages :
        /\ Names(supervisor_messages[k].tool_calls) =
               <<"ConductResearch", "think_tool", "ConductResearch">>
        /\ Len(supervisor_messages) >= k + 3
        /\ \A j \in 1..3 : supervisor_messages[k + j].type = "tool"

\* C10: the supervisor_tools step that aggregates n researchers appends
\* exactly n strings to raw_notes, the i-th being the newline-join of the
\* raw notes of the researcher of the i-th ConductResearch call; a researcher
\* that completed holds exactly one raw note.
C10_RawNotesPerWorker ==
    [][/\ (supPc = "awaiting" /\ supPc' = "supervisor") =>
              LET calls == SelectSeq(Last(supervisor_messages).tool_calls,
                                     LAMBDA c : c.name = "ConductResearch")
                  old == Len(raw_notes)
              IN  /\ Len(workers) = Len(calls)
                  /\ Len(raw_notes') = old + Len(calls)
                  /\ SubSeq(raw_notes', 1, old) = raw_notes
                  /\ \A i \in DOMAIN calls :
                        /\ workers[i].toolCall = calls[i]
                        /\ raw_notes'[old + i] = Join(workers[i].raw_notes, "\n")
       /\ \A w \in DOMAIN workers :
              workers[w].pc = "END" => Len(workers[w].raw_notes) = 1
      ]_vars

\* C10 witness: the supervisor decides again with the raw notes of two
\* researchers, each a join of several messages.
C10_Witness ==
    /\ supPc = "supervisor"
    /\ Len(raw_notes) = 2
    /\ \A i \in 1..2 : \E j \in DOMAIN raw_notes[i] : raw_notes[i][j] = "\n"

DistinctUrls(searchResults) ==
    {AllResults(searchResults)[i].url : i \in DOMAIN AllResults(searchResults)}

\* the first result with this URL, by response and then by position
FirstResult(searchResults, url) ==
    LET all == AllResults(searchResults)
    IN  all[CHOOSE i \in DOMAIN all :
                /\ all[i].url = url
                /\ \A j \in 1..(i - 1) : all[j].url # url]

\* C11: once deduplicateSearchResults has run on responses that hold u
\* distinct URLs, uniqueResults has exactly u entries, one per distinct URL,
\* and the entry of each URL is the first result with that URL, by response
\* and then by position in the response; a later one never replaces it.
C11_DeduplicateKeepsFirst ==
    searchPc \in {"process", "format", "formatted"} =>
        /\ Len(uniqueResults) = Cardinality(DistinctUrls(searchDocs))
        /\ {uniqueResults[i].url : i \in DOMAIN uniqueResults} = DistinctUrls(searchDocs)
        /\ \A i \in DOMAIN uniqueResults :
              uniqueResults[i].result = FirstResult(searchDocs, uniqueResults[i].url)

\* C11 witness: two responses of two results each hold two distinct URLs, one
\* of them twice in the first response, and two entries were kept.
C11_Witness ==
    /\ searchPc = "process"
    /\ Len(searchDocs) = 2
    /\ Len(AllResults(searchDocs)) = 4
    /\ searchDocs[1].results[1].url = searchDocs[1].results[2].url
    /\ Len(uniqueResults) = 2

\* C12: every formatSearchOutput call on an empty result set returns the
\* fixed "no results" string, whatever the calls before it returned.
C12_FormatEmptyIsSentinel ==
    [][(/\ searchPc = "format"
        /\ summarizedResults = <<>>
        /\ searchPc' = "formatted") =>
          formattedOutput' = NoValidResults
      ]_vars

\* C12 witness: formatSearchOutput returned the fixed string for an empty set
\* in the call after one that formatted a set that is not empty.
C12_Witness ==
    /\ searchPc = "formatted"
    /\ summarizedResults = <<>>
    /\ formattedOutput = NoValidResults
    /\ observation # <<>>
    /\ observation[1] = "Search Results:\n\n"

\* the number of blocks of a formatted output
Blocks(output) == Cardinality({k \in DOMAIN output : output[k] = "URL: "})

\* C15: whichever summarization calls throw, processSearchResults returns one
\* entry per deduplicated URL, an entry whose call threw carrying the raw text
\* (cut to SummaryFallbackChars characters and an ellipsis when it is longer);
\* formatSearchOutput then returns one block per deduplicated URL, and the
\* observation of toolNode is that string, not an error text.
C15_SummarizationFailureDegrades ==
    [][/\ searchPc = "process" =>
             /\ searchPc' = "format"
             /\ Len(summarizedResults') = Len(uniqueResults)
             /\ \A i \in DOMAIN uniqueResults :
                   LET raw == uniqueResults[i].result.raw_content
                       out == summarizedResults'[i]
                   IN  /\ out.url = uniqueResults[i].url
                       /\ out.result.title = uniqueResults[i].result.title
                       /\ \/ raw = <<>> /\ out.result.content = uniqueResults[i].result.content
                          \/ raw # <<>> /\ out.result.content = FormattedSummary(raw)
                          \/ /\ raw # <<>>
                             /\ Length(raw) <= SummaryFallbackChars
                             /\ out.result.content = raw
                          \/ /\ Length(raw) > SummaryFallbackChars
                             /\ Length(out.result.content) = SummaryFallbackChars + 1
                             /\ Last(out.result.content) = "..."
                             /\ \A k \in 1..(Len(out.result.content) - 1) :
                                   out.result.content[k] = raw[k]
       /\ searchPc = "format" =>
             /\ searchPc' = "formatted"
             /\ Blocks(formattedOutput') = Len(uniqueResults)
             /\ \A i \in DOMAIN uniqueResults :
                   \E k \in DOMAIN formattedOutput' :
                      /\ formattedOutput'[k] = "URL: "
                      /\ formattedOutput'[k + 1] = uniqueResults[i].url
       /\ searchPc = "formatted" =>
             /\ observation' = formattedOutput
             /\ observation'[1] # "Error executing tool '"
      ]_vars

\* C15 witness: toolNode observed a formatted output in which one entry
\* carries a summary and another the cut raw text: one call of two threw.
C15_Witness ==
    /\ searchPc = "observed"
    /\ observation = formattedOutput
    /\ Blocks(observation) = 2
    /\ \E k \in DOMAIN observation : observation[k] = "..."
    /\ \E k \in DOMAIN observation : observation[k] = "<summary>\n"

\* C13: a supervisor_tools step that neither returns to the decision step
\* nor suspends on its researchers (an exit criterion holds, thinkTool.invoke
\* threw, or a researcher promise rejected) never leaves the graph with an
\* error: it ends the phase, adds to notes the ToolMessage contents of the
\* history as it was before the step, copies research_brief through and
\* appends nothing to the history or to raw_notes.
C13_PhaseFaultEndsPhase ==
    [][(/\ supPc \in {"supervisor_tools", "awaiting"}
        /\ supPc' \notin {supPc, "supervisor", "awaiting"}) =>
          /\ supPc' = "END"
          /\ notes' = notes \o getNotesFromToolCalls(supervisor_messages)
          /\ research_brief' = research_brief
          /\ supervisor_messages' = supervisor_messages
          /\ raw_notes' = raw_notes
      ]_vars

\* C13 witness: the phase ended below the cap on a turn that holds only a
\* think_tool call, and the note of the earlier reflection was harvested:
\* thinkTool.invoke threw.
C13_Witness ==
    /\ supPc = "END"
    /\ research_iterations < MaxResearcherIterations
    /\ Last(supervisor_messages).type = "ai"
    /\ Names(Last(supervisor_messages).tool_calls) = <<"think_tool">>
    /\ notes = <<thinkTool(<<"reflection">>)>>

\* C14: no failure of the model or of the search service leaves the
\* supervisor graph as an error.
C14_NoServiceFailureEscapes == supPc # "FAILED"

\* C16 as stated: a researcher whose model returned a turn without tool calls
\* reaches END: the compress_research step that follows ends in END.
C16_ZeroInvocationsReachDone ==
    [][\A w \in DOMAIN workers :
          (workers[w].pc = "compress_research" /\ workers'[w] # workers[w]) =>
              workers'[w].pc = "END"
      ]_vars

\* C16 as amended: a researcher enters END only from compress_research, which
\* it enters only on a model turn without tool calls, and compress_research
\* ends in END unless its model call throws; a model turn with tool calls
\* leads to tool_node and from there back to llm_call, however long the
\* history is: the loop has no cap of its own.
C16_WorkerEndsOnlyWithoutInvocations ==
    [][\A w \in DOMAIN workers :
          workers'[w] # workers[w] =>
              LET old == workers[w]
                  new == workers'[w]
              IN  /\ new.pc = "END" =>
                        /\ old.pc = "compress_research"
                        /\ Last(old.researcher_messages).type = "ai"
                        /\ Last(old.researcher_messages).tool_calls = <<>>
                  /\ old.pc = "compress_research" => new.pc \in {"END", "FAILED"}
                  /\ (old.pc = "llm_call" /\ new.pc \notin {"FAILED", "tool_node_more"}) =>
                        /\ Len(new.researcher_messages) = Len(old.researcher_messages) + 1
                        /\ new.pc = IF Last(new.researcher_messages).tool_calls = <<>>
                                    THEN "compress_research"
                                    ELSE "tool_node"
                  /\ old.pc = "tool_node" => new.pc = "llm_call"
                  /\ old.pc = "llm_call_more" => new.pc = "tool_node_more"
                  /\ old.pc = "tool_node_more" => new.pc = "llm_call_more"
      ]_vars

\* C16 witness: a researcher reached END after three rounds of tool calls and
\* a turn without tool calls.
C16_Witness ==
    /\ supPc = "none"
    /\ workers[1].pc = "END"
    /\ Len(workers[1].researcher_messages) = 8
    /\ Last(workers[1].researcher_messages).tool_calls = <<>>

\* the history of a researcher holds the topic, then its own turns only
OwnHistory(worker) ==
    LET m == worker.researcher_messages
    IN  /\ Len(m) >= 1
        /\ m[1] = HumanMessage(worker.toolCall.args)
        /\ \A k \in 2..Len(m) :
              /\ m[k].type \in {"ai", "tool"}
              /\ m[k].type = "tool" =>
                    \E j \in 2..(k - 1) :
                       /\ m[j].type = "ai"
                       /\ \E c \in DOMAIN m[j].tool_calls :
                             m[j].tool_calls[c].id = m[k].tool_call_id
        /\ \A k \in DOMAIN m :
              \A j \in DOMAIN supervisor_messages : m[k] # supervisor_messages[j]

\* C18: a researcher starts with a history of exactly one turn, its topic;
\* at every later state its history holds that turn, then only its own model
\* turns and the ToolMessages that answer them, and no turn of the history of
\* the supervisor; a step of one researcher appends to its own history only
\* and leaves the history of every other researcher of the batch as it is.
C18_WorkerIsolation ==
    [][/\ (supPc = "supervisor_tools" /\ supPc' = "awaiting") =>
             \A w \in DOMAIN workers' :
                workers'[w].researcher_messages = <<HumanMessage(workers'[w].research_topic)>>
       /\ \A w \in DOMAIN workers' :
             workers'[w].pc \notin {"FAILED", "gone"} => OwnHistory(workers'[w])
       /\ (supPc' = supPc /\ workers' # workers) =>
             \E w \in DOMAIN workers :
                /\ \A v \in DOMAIN workers : v # w => workers'[v] = workers[v]
                /\ workers'[w].pc # "FAILED" =>
                      LET old == workers[w].researcher_messages
                          new == workers'[w].researcher_messages
                      IN  /\ Len(new) >= Len(old)
                          /\ SubSeq(new, 1, Len(old)) = old
                          /\ \A k \in (Len(old) + 1)..Len(new) :
                                \/ new[k].type = "ai"
                                \/ /\ new[k].type = "tool"
                                   /\ \E c \in DOMAIN Last(old).tool_calls :
                                         Last(old).tool_calls[c].id = new[k].tool_call_id
      ]_vars

\* C18 witness: two researchers of one batch, each with its topic, a model
\* turn and a ToolMessage of its own in its history.
C18_Witness ==
    /\ supPc = "awaiting"
    /\ Len(workers) = 2
    /\ \A w \in 1..2 :
          /\ Len(workers[w].researcher_messages) = 3
          /\ workers[w].researcher_messages[1].content = <<Topics[w]>>
          /\ workers[w].researcher_messages[3].type = "tool"

\* C19: whatever the order in which the researchers of a batch finished, the
\* i-th ToolMessage the step appends for them carries the id of the i-th
\* ConductResearch call and the result of the researcher of that call's
\* topic, and the i-th raw-notes entry holds the raw notes of that researcher.
C19_PairedByInvocation ==
    [][(supPc = "awaiting" /\ supPc' = "supervisor") =>
          LET calls == conductResearchCalls(Last(supervisor_messages).tool_calls)
              n == Len(calls)
              first == Len(supervisor_messages') - n
              done == {settled[k] : k \in DOMAIN settled}
          IN  /\ done = 1..n
              /\ \A i \in 1..n :
                    LET worker == workers[CHOOSE w \in DOMAIN workers :
                                              workers[w].research_topic = calls[i].args]
                    IN  /\ supervisor_messages'[first + i].tool_call_id = calls[i].id
                        /\ supervisor_messages'[first + i].content \in
                               {ErrorReport, <<"findings on ">> \o calls[i].args}
                        /\ supervisor_messages'[first + i].content =
                               compressedResearch(worker)
                        /\ raw_notes'[Len(raw_notes) + i] = Join(worker.raw_notes, "\n")
      ]_vars

\* C19 witness: the researcher of the second call finished first, and the
\* history ends with the result on the first topic, then the one on the second.
C19_Witness ==
    /\ supPc = "supervisor"
    /\ settled = <<2, 1>>
    /\ Len(supervisor_messages) >= 4
    /\ supervisor_messages[Len(supervisor_messages) - 1].content =
           <<"findings on ", Topics[1]>>
    /\ Last(supervisor_messages).content = ErrorReport
    /\ Len(raw_notes) = 2

\* C20: no step of a researcher changes the history, the notes or the raw
\* notes of the supervisor; while a researcher of the batch is still running
\* nothing is appended to the history or to the raw notes; the step that
\* appends the ToolMessages of the batch runs when every researcher has
\* finished and appends all of them, and all raw notes, at once.
C20_NoPartialAggregation ==
    [][/\ (supPc' = supPc /\ workers' # workers) =>
             /\ supervisor_messages' = supervisor_messages
             /\ notes' = notes
             /\ raw_notes' = raw_notes
       /\ (supPc = "awaiting" /\ \E w \in DOMAIN workers : Running(workers[w])) =>
             /\ supervisor_messages' = supervisor_messages
             /\ raw_notes' = raw_notes
       /\ (supPc = "awaiting" /\ supervisor_messages' # supervisor_messages) =>
             /\ \A w \in DOMAIN workers : workers[w].pc = "END"
             /\ Len(supervisor_messages') =
                    Len(supervisor_messages) + Len(toolMessages) + Len(workers)
             /\ Len(raw_notes') = Len(raw_notes) + Len(workers)
      ]_vars

\* C20 witness: the first researcher of a batch of two has finished with raw
\* notes, the second still runs, and the supervisor holds no result yet.
C20_Witness ==
    /\ supPc = "awaiting"
    /\ Len(workers) = 2
    /\ workers[1].pc = "END"
    /\ Len(workers[1].raw_notes) = 1
    /\ Running(workers[2])
    /\ raw_notes = <<>>
    /\ Last(supervisor_messages).type = "ai"

\* the session ended on the question of clarify_with_user
Asked == stage = "END" /\ Last(messages).content = <<"question">>

\* C17: the stage changes only from clarification to the brief, from the
\* brief to the supervisor phase, from there to the final report and from
\* there to the end (or to an error); the supervisor graph moves and spawns
\* researchers only in its own stage and the report is written only in the
\* last one; a clarification that asks a question goes to the end at once,
\* having appended that one turn, and the session then stands still with no
\* brief, no supervisor turn, no researcher and no report.
C17_SessionSequencing ==
    [][/\ stage' # stage =>
             \/ <<stage, stage'>> \in
                    {<<"clarify_with_user", "write_research_brief">>,
                     <<"clarify_with_user", "END">>,
                     <<"write_research_brief", "supervisor_subgraph">>,
                     <<"supervisor_subgraph", "final_report_generation">>,
                     <<"final_report_generation", "END">>}
             \/ stage # "END" /\ stage' = "FAILED"
       /\ supPc' # supPc =>
             \/ stage = "supervisor_subgraph" /\ stage' = stage
             \/ stage = "write_research_brief" /\ supPc = "idle" /\ supPc' = "supervisor"
       /\ (supPc' = "awaiting" /\ supPc # "awaiting") => stage = "supervisor_subgraph"
       /\ research_brief' # research_brief => stage = "write_research_brief"
       /\ final_report' # final_report => stage = "final_report_generation"
       /\ (stage = "clarify_with_user" /\ Last(messages').content = <<"question">>) =>
             stage' = "END"
       /\ (stage = "clarify_with_user" /\ stage' = "END") =>
             messages' = Append(messages, AIMessage(<<"question">>, TRUE, <<>>))
       /\ Asked' =>
             /\ Len(messages') = 2
             /\ research_brief' = <<>>
             /\ supPc' = "idle"
             /\ supervisor_messages' = <<>>
             /\ workers' = <<>>
             /\ final_report' = <<>>
       /\ ~Asked
      ]_vars

\* C17 witness: the session ended on the question: the request and the
\* question are its only turns and nothing else was set.
C17_Witness ==
    /\ Asked
    /\ messages = <<HumanMessage(UserRequest), AIMessage(<<"question">>, TRUE, <<>>)>>
    /\ research_brief = <<>>
    /\ supPc = "idle"

\* C21: the llm_call step that appends a model turn leads to tool_node
\* exactly when that turn holds one or more tool calls and to
\* compress_research exactly when it holds none (no list or an empty list);
\* compress_research is never entered while the latest turn holds a tool
\* call, and tool_node always leads back to llm_call.
C21_WorkerRouting ==
    [][\A w \in DOMAIN workers :
          LET old == workers[w]
              new == workers'[w]
              turn == Last(new.researcher_messages)
          IN  /\ (/\ old.pc = "llm_call"
                  /\ Len(new.researcher_messages) = Len(old.researcher_messages) + 1) =>
                    /\ turn.type = "ai"
                    /\ new.pc = "tool_node" <=> Len(turn.tool_calls) >= 1
                    /\ new.pc = "compress_research" <=>
                           (~turn.has_tool_calls \/ turn.tool_calls = <<>>)
              /\ new.pc = "compress_research" =>
                    /\ turn.type = "ai"
                    /\ turn.tool_calls = <<>>
              /\ (old.pc = "tool_node" /\ new # old) => new.pc = "llm_call"
      ]_vars

\* C21 witness: after a round of tool calls the model returned a turn with an
\* empty list of tool calls and the researcher is at compress_research.
C21_Witness ==
    /\ supPc = "none"
    /\ workers[1].pc = "compress_research"
    /\ Len(workers[1].researcher_messages) >= 4
    /\ Last(workers[1].researcher_messages).has_tool_calls
    /\ Last(workers[1].researcher_messages).tool_calls = <<>>

NotFound(toolCall) == <<"Error: tool '", toolCall.name, "' not found.">>

ExecutionError(toolCall) == <<"Error executing tool '", toolCall.name, "': ", "error">>

\* C22: a tool_node step always leads to llm_call, also when a tool call names
\* a tool that is not bound or a bound tool throws: the call is answered by an
\* error ToolMessage (the not-found text for a tool that is not bound), and
\* the llm_call step that follows keeps it in the history it extends.
C22_LoopContinuesAfterToolFault ==
    [][\A w \in DOMAIN workers :
          LET old == workers[w]
              new == workers'[w]
              calls == Last(old.researcher_messages).tool_calls
              base == Len(old.researcher_messages)
          IN  /\ (old.pc = "tool_node" /\ new # old) =>
                    /\ new.pc = "llm_call"
                    /\ Len(new.researcher_messages) = base + Len(calls)
                    /\ \A i \in DOMAIN calls :
                          LET answer == new.researcher_messages[base + i].content
                          IN  /\ calls[i].name \notin {"tavily_search", "think_tool"} =>
                                    answer = NotFound(calls[i])
                              /\ calls[i].name = "tavily_search" =>
                                    answer \in {ExecutionError(calls[i]),
                                                tavilySearch(calls[i].args)}
                              /\ calls[i].name = "think_tool" =>
                                    answer = thinkTool(calls[i].args)
              /\ (old.pc = "llm_call" /\ new.pc \in {"tool_node", "compress_research"}) =>
                    SubSeq(new.researcher_messages, 1, base) = old.researcher_messages
      ]_vars

\* C22 witness: a search threw and a tool was not bound in one batch, and the
\* model answered the history that holds both error messages with a new turn.
C22_Witness ==
    /\ supPc = "none"
    /\ Len(workers[1].researcher_messages) >= 5
    /\ workers[1].researcher_messages[3].content =
           <<"Error executing tool '", "tavily_search", "': ", "error">>
    /\ workers[1].researcher_messages[4].content =
           <<"Error: tool '", "unknown_tool", "' not found.">>
    /\ workers[1].researcher_messages[5].type = "ai"

\* C23: the compress_research step that returns leaves the history as it is,
\* sets compressed_research to the text of the model's response and raw_notes
\* to one string: the newline-join of the contents of the turns of the
\* history after the topic turn, all of them model turns or ToolMessages, in
\* their order.
C23_CompressResearchOutput ==
    [][\A w \in DOMAIN workers :
          (workers[w].pc = "compress_research" /\ workers'[w].pc = "END") =>
              LET history == workers[w].researcher_messages
                  rest == Tail(history)
              IN  /\ workers'[w].researcher_messages = history
                  /\ history[1].type = "human"
                  /\ \A k \in DOMAIN rest : rest[k].type \in {"ai", "tool"}
                  /\ workers'[w].compressed_research \in
                         {<<>>, <<"findings on ">> \o workers[w].research_topic}
                  /\ Len(workers'[w].raw_notes) = 1
                  /\ workers'[w].raw_notes[1] =
                         Join([k \in DOMAIN rest |-> rest[k].content], "\n")
      ]_vars

\* C23 witness: a researcher ended with a compressed text and one raw note that
\* joins a model turn, two ToolMessages and the last model turn.
C23_Witness ==
    /\ supPc = "none"
    /\ workers[1].pc = "END"
    /\ workers[1].compressed_research = <<"findings on ", "solar">>
    /\ Len(workers[1].researcher_messages) = 5
    /\ workers[1].raw_notes =
           <<Join([k \in 1..4 |-> workers[1].researcher_messages[k + 1].content], "\n")>>

\* the positions of the ToolMessages of a history
ToolPositions(msgs) == {i \in DOMAIN msgs : msgs[i].type = "tool"}

\* C24: the step that ends the phase appends to notes the contents of the
\* ToolMessages of the supervisor history, one per ToolMessage, in their
\* order, and of no other turn; so the compressed research of every
\* researcher whose result was delivered is in notes, in the order of
\* delivery.
C24_NoteHarvest ==
    [][(supPc # "END" /\ supPc' = "END") =>
          LET at == ToolPositions(supervisor_messages)
          IN  /\ Len(notes') = Len(notes) + Cardinality(at)
              /\ SubSeq(notes', 1, Len(notes)) = notes
              /\ \A i \in at :
                    notes'[Len(notes) + Cardinality({j \in at : j <= i})] =
                        supervisor_messages[i].content
      ]_vars

\* C24 witness: the phase ended with three notes, a reflection among them and
\* the findings of a researcher, the history ending with a model turn.
C24_Witness ==
    /\ supPc = "END"
    /\ Len(notes) = 3
    /\ \E i \in DOMAIN notes : notes[i] = thinkTool(<<"reflection">>)
    /\ \E i \in DOMAIN notes : Len(notes[i]) = 2 /\ notes[i][1] = "findings on "
    /\ Last(supervisor_messages).type = "ai"

\* the model turns of a history
ModelTurns(msgs) == {i \in DOMAIN msgs : msgs[i].type = "ai"}

\* C25: research_iterations starts at 0, goes up by one with every supervisor
\* step that appends a model turn, is left alone by every other step, so it
\* never goes down and counts the model turns of the history; it never
\* exceeds maxResearcherIterations.
C25_IterationCounter ==
    [][/\ (supPc = "supervisor" /\ supPc' = "supervisor_tools") =>
              research_iterations' = research_iterations + 1
       /\ (supPc # "supervisor" \/ supPc' # "supervisor_tools") =>
              research_iterations' = research_iterations
       /\ research_iterations = Cardinality(ModelTurns(supervisor_messages))
       /\ research_iterations' = Cardinality(ModelTurns(supervisor_messages'))
       /\ research_iterations' <= MaxResearcherIterations
      ]_vars

\* C25 witness: the sixth model turn was appended, the counter is at the cap
\* and the tool step has not yet run.
C25_Witness ==
    /\ supPc = "supervisor_tools"
    /\ research_iterations = MaxResearcherIterations
    /\ Cardinality(ModelTurns(supervisor_messages)) = MaxResearcherIterations

\* C27: no step of the supervisor graph or of a researcher changes
\* research_brief; it is the brief the phase started with when the phase
\* ends, by whichever branch.
C27_BriefImmutable ==
    [][/\ research_brief' = research_brief
       /\ supPc' = "END" => research_brief' = Brief
      ]_vars

\* C27 witness: the phase ended in the catch block after a researcher threw,
\* with the brief it started with.
C27_Witness ==
    /\ supPc = "END"
    /\ research_brief = Brief
    /\ research_brief # <<>>
    /\ \E w \in DOMAIN workers : workers[w].pc = "gone"
    /\ "ConductResearch" \in {Last(supervisor_messages).tool_calls[i].name :
                                 i \in DOMAIN Last(supervisor_messages).tool_calls}
    /\ research_iterations < MaxResearcherIterations

\* C30: the step that ends the phase appends nothing to the history or to
\* raw_notes and leaves research_iterations alone; it only extends notes. The
\* reflection ToolMessages the step had built and what the researchers of
\* the batch had returned are dropped.
C30_TerminatingStepFrame ==
    [][(supPc \in {"supervisor_tools", "awaiting"} /\ supPc' = "END") =>
          /\ supervisor_messages' = supervisor_messages
          /\ raw_notes' = raw_notes
          /\ research_iterations' = research_iterations
          /\ SubSeq(notes', 1, Len(notes)) = notes
          /\ toolMessages' = <<>>
          /\ \A w \in DOMAIN workers' :
                /\ workers'[w].pc # "END"
                /\ ~Running(workers'[w]) => workers'[w].raw_notes = <<>>
      ]_vars

\* C30 witness: a batch of a reflection and two delegations ended the phase
\* in the catch block: the history still ends with the model turn, and there
\* is neither the note of the reflection nor a raw note.
C30_Witness ==
    /\ supPc = "END"
    /\ Names(Last(supervisor_messages).tool_calls) =
           <<"think_tool", "ConductResearch", "ConductResearch">>
    /\ research_iterations = 1
    /\ raw_notes = <<>>
    /\ notes = <<>>
    /\ \E w \in DOMAIN workers : workers[w].pc = "gone"

\* the tool calls of a batch with a name supervisorTools does not look for
OtherCalls(toolCalls) ==
    SelectSeq(toolCalls, LAMBDA c : c.name \notin {"think_tool", "ConductResearch",
                                                   "ResearchComplete"})

IsPrefix(s, t) == Len(s) <= Len(t) /\ SubSeq(t, 1, Len(s)) = s

\* C26: with every step of the session, of the supervisor graph or of a
\* researcher, the earlier value of messages, notes, raw_notes and
\* supervisor_messages is a prefix of the later one, and so are the history
\* and the raw notes of every researcher that goes on running or returns.
C26_AppendOnly ==
    [][/\ IsPrefix(messages, messages')
       /\ IsPrefix(notes, notes')
       /\ IsPrefix(raw_notes, raw_notes')
       /\ IsPrefix(supervisor_messages, supervisor_messages')
       /\ \A w \in DOMAIN workers \cap DOMAIN workers' :
             (/\ Running(workers[w])
              /\ workers'[w].pc # "FAILED"
              /\ workers'[w].toolCall = workers[w].toolCall) =>
                 /\ IsPrefix(workers[w].researcher_messages,
                             workers'[w].researcher_messages)
                 /\ IsPrefix(workers[w].raw_notes, workers'[w].raw_notes)
      ]_vars

\* C26 witness: the session ended after a delegation: the supervisor history
\* holds the brief, two model turns and the answer of the researcher, one
\* raw note and one note were added, and the report followed the request.
C26_Witness ==
    /\ stage = "END"
    /\ Len(messages) >= 2
    /\ Len(supervisor_messages) = 4
    /\ Len(raw_notes) = 1
    /\ Len(notes) = 1
    /\ final_report # <<>>

\* the ConductResearch calls of the latest model turn
Delegations ==
    SelectSeq(Last(supervisor_messages).tool_calls, LAMBDA c : c.name = "ConductResearch")

\* C28: a supervisor_tools step on a batch with n >= 1 ConductResearch calls
\* that does not end the phase starts exactly n researchers, the i-th for
\* the i-th of these calls, all of them running at once, whatever n is: also
\* when n is greater than the number of concurrent research units the prompt
\* names, which the step never looks at.
C28_FanOutWidth ==
    [][/\ (supPc = "supervisor_tools" /\ supPc' = "awaiting") =>
              /\ Len(Delegations) >= 1
              /\ Len(workers') = Len(Delegations)
              /\ \A i \in DOMAIN Delegations :
                    /\ workers'[i].toolCall = Delegations[i]
                    /\ workers'[i].research_topic = Delegations[i].args
                    /\ workers'[i].pc = "llm_call"
       /\ (/\ supPc = "supervisor_tools"
           /\ supPc' # supPc
           /\ Len(Delegations) >= 1
           /\ research_iterations < MaxResearcherIterations) =>
              supPc' = "awaiting"
       /\ supPc = "awaiting" => Len(workers) = Len(Delegations)
      ]_vars

\* C28 witness: four researchers of one batch, more than the units the prompt
\* names, are all in the middle of their runs at the same time.
C28_Witness ==
    /\ supPc = "awaiting"
    /\ Len(workers) = MaxConcurrentResearchUnits + 1
    /\ Len(Delegations) = Len(workers)
    /\ \A w \in DOMAIN workers :
          /\ Running(workers[w])
          /\ Len(workers[w].researcher_messages) >= 2

\* C31: a supervisor step, and a supervisor_tools step that goes back to the
\* supervisor or suspends on its researchers, leave notes as they are, and so
\* does every step of a researcher; only the step that ends the phase writes
\* notes, so notes are empty until the phase has ended and are written once.
C31_NotesWrittenOnlyAtEnd ==
    [][/\ (supPc = "END" \/ supPc' # "END") => notes' = notes
       /\ supPc # "END" => notes = <<>>
      ]_vars

\* C31 witness: two batches were executed and answered, with raw notes of a
\* researcher added, the supervisor runs next and notes are still empty.
C31_Witness ==
    /\ supPc = "supervisor"
    /\ research_iterations = 2
    /\ Last(supervisor_messages).type = "tool"
    /\ Cardinality(ToolPositions(supervisor_messages)) >= 2
    /\ raw_notes # <<>>
    /\ notes = <<>>

\* C32: when a researcher of a batch returned with an empty compressed
\* research and no researcher of the batch threw, the step appends for it a
\* ToolMessage with the fixed error string, adds the raw notes it returned to
\* raw_notes all the same, and goes back to the supervisor.
C32_EmptyResultReported ==
    [][(/\ supPc = "awaiting"
        /\ supPc' # supPc
        /\ \A i \in DOMAIN workers : workers[i].pc = "END") =>
          LET base == Len(supervisor_messages) + Len(toolMessages)
          IN  /\ supPc' = "supervisor"
              /\ \A i \in DOMAIN workers :
                    workers[i].compressed_research = <<>> =>
                       /\ supervisor_messages'[base + i].content =
                              <<"Error synthesizing research report">>
                       /\ supervisor_messages'[base + i].tool_call_id =
                              workers[i].toolCall.id
                       /\ workers[i].raw_notes # <<>>
                       /\ raw_notes'[Len(raw_notes) + i] = workers[i].raw_notes[1]
      ]_vars

\* C32 witness: the only researcher of a batch returned an empty compressed
\* research after a search; the history ends with the error string, its raw
\* note was added and the supervisor runs next.
C32_Witness ==
    /\ supPc = "supervisor"
    /\ Len(supervisor_messages) = 3
    /\ Last(supervisor_messages).content = <<"Error synthesizing research report">>
    /\ Last(supervisor_messages).name = "ConductResearch"
    /\ Len(raw_notes) = 1
    /\ \E k \in DOMAIN raw_notes[1] : raw_notes[1][k] = "Search Results:"

\* the prefix of a text of at most n characters, piece by piece
RECURSIVE Prefix(_, _)
Prefix(str, n) ==
    IF str = <<>> \/ n < PieceLength(Head(str)) THEN <<>>
    ELSE <<Head(str)>> \o Prefix(Tail(str), n - PieceLength(Head(str)))

\* the entries of uniqueResults whose content after processSearchResults is
\* none of the snippet and the summary: the entries whose model call threw
Fallbacks ==
    {i \in DOMAIN uniqueResults :
        /\ uniqueResults[i].result.raw_content # <<>>
        /\ summarizedResults[i].result.content #
               FormattedSummary(uniqueResults[i].result.raw_content)}

\* C33 as stated: the content of an entry whose summarization call threw is
\* the first 1000 characters of the page text followed by the ellipsis,
\* whatever the length of the text.
C33_FallbackAlwaysMarked ==
    searchPc = "format" =>
        \A i \in Fallbacks :
            summarizedResults[i].result.content =
                Prefix(uniqueResults[i].result.raw_content, 1000) \o <<"...">>

\* C33 as amended: the content of an entry whose summarization call threw is
\* the first 1000 characters of the page text followed by the ellipsis when
\* the text is longer than 1000 characters, and the page text itself, with no
\* ellipsis, when it has 1000 characters or fewer.
C33_FallbackMarkedWhenCut ==
    searchPc = "format" =>
        \A i \in Fallbacks :
            LET raw == uniqueResults[i].result.raw_content
                content == summarizedResults[i].result.content
            IN  /\ Length(raw) > 1000 =>
                       content = Prefix(raw, 1000) \o <<"...">>
                /\ Length(raw) <= 1000 =>
                       content = raw /\ Last(content) # "..."

\* C33 witness: the calls for a page of exactly 1000 characters and for a
\* longer page both threw: the first entry carries the page text as it is,
\* the second the cut text and the ellipsis.
C33_Witness ==
    /\ searchPc = "format"
    /\ \E i, j \in Fallbacks :
          /\ Length(uniqueResults[i].result.raw_content) = 1000
          /\ summarizedResults[i].result.content = uniqueResults[i].result.raw_content
          /\ Length(uniqueResults[j].result.raw_content) > 1000
          /\ Last(summarizedResults[j].result.content) = "..."

\* the positions at which the blocks of a formatted output start
BlockStarts(output) == {k \in DOMAIN output : output[k] = "\n\n--- SOURCE "}

\* the k-th smallest element of a set of numbers
Nth(set, k) == CHOOSE x \in set : Cardinality({y \in set : y <= x}) = k

\* the pieces of a formatted output from position a up to, not including, b
Slice(output, a, b) == SubSeq(output, a, b - 1)

\* C35: formatSearchOutput called on a set of n >= 1 entries has returned the
\* heading
\* and n blocks, nothing else: the i-th block carries the number i, then the
\* title, the URL and the content of the i-th entry, and ends with a line of
\* 80 dashes; the result is never the "no results" string.
C35_FormatRendersEveryEntry ==
    (searchPc = "formatted" /\ summarizedResults # <<>>) =>
          LET out == formattedOutput
              n == Len(summarizedResults)
              starts == BlockStarts(out)
              from(i) == Nth(starts, i)
              to(i) == IF i = n THEN Len(out) + 1 ELSE Nth(starts, i + 1)
          IN  /\ out # NoValidResults
              /\ out[1] = "Search Results:\n\n"
              /\ Cardinality(starts) = n
              /\ Nth(starts, 1) = 2
              /\ \A i \in 1..n :
                    LET entry == summarizedResults[i]
                        block == Slice(out, from(i), to(i))
                        dashes == {k \in DOMAIN block : block[k] = "-"}
                    IN  /\ block[2] = ToString(i)
                        /\ block[3] = ": "
                        /\ SubSeq(block, 4, 3 + Len(entry.result.title)) = entry.result.title
                        /\ \E k \in DOMAIN block :
                              /\ block[k] = "URL: "
                              /\ block[k + 1] = entry.url
                              /\ block[k + 3] = "SUMMARY:\n"
                              /\ SubSeq(block, k + 4, k + 3 + Len(entry.result.content))
                                     = entry.result.content
                        /\ Last(block) = "\n"
                        /\ Cardinality(dashes) = 80
                        /\ dashes = (Len(block) - 80)..(Len(block) - 1)

\* C35 witness: a set of three entries was formatted into three blocks, the
\* last of them numbered 3.
C35_Witness ==
    /\ searchPc = "formatted"
    /\ Len(summarizedResults) = 3
    /\ Cardinality(BlockStarts(formattedOutput)) = 3
    /\ formattedOutput[Nth(BlockStarts(formattedOutput), 3) + 1] = "3"

C37_FinalReportOnce ==
    [][/\ final_report' # final_report =>
             /\ final_report = <<>>
             /\ stage = "final_report_generation"
             /\ stage' = "END"
             /\ supPc = "END"
             /\ notes' = notes
             /\ \/ final_report' = <<"short report">>
                \/ final_report' =
                       <<"report on ", "brief: ">> \o research_brief
                           \o <<"findings: ">> \o Join(notes, "\n")
       /\ stage # "final_report_generation" => final_report' = final_report
       /\ stage \notin {"END", "FAILED"} => final_report = <<>>
       /\ (stage' = "END" /\ Last(messages').type = "ai") => final_report' = <<>>
      ]_vars

\* C37 witness: the session ended with a report that quotes the brief and the
\* findings of a researcher, which are the notes.
C37_Witness ==
    /\ stage = "END"
    /\ supPc = "END"
    /\ Len(notes) = 1
    /\ final_report =
           <<"report on ", "brief: ">> \o research_brief \o <<"findings: ">> \o notes[1]
    /\ notes[1][1] = "findings on "

\* C34: a supervisor_tools step taken with research_iterations at or above
\* the configured maximum, the value the supervisor names in its prompt, ends
\* the phase, whatever that maximum is.
C34_ThresholdIsConfigured ==
    [][(/\ supPc = "supervisor_tools"
        /\ supPc' # supPc
        /\ research_iterations >= maxResearcherIterations) =>
          supPc' = "END"
      ]_vars

====
